---- MODULE Spec2Model ----
(***************************************************************************)
(* Contract-Intelligence-API: the document store (PDFService), the chunker  *)
(* and indexer (RAGService), the ingestion endpoint and the audit rules     *)
(* (LLMService), modelled from the Python sources.                          *)
(*                                                                          *)
(* Text is a sequence of one-character strings.  A stored upload is the     *)
(* abstract content of a PDF: the text of each page as the parsers extract  *)
(* it, and how far each parser gets before it raises.                       *)
(***************************************************************************)
EXTENDS Integers, Sequences, FiniteSets, TLC

VARIABLES
    uploads,     \* upload_dir: document_id -> stored PDF
    metadata,    \* data_dir: document_id -> the saved <id>_metadata.json
    collection,  \* the ChromaDB collection "contracts", in insertion order
    cfg,         \* the chunk_size / chunk_overlap index_document is called with
    runs,        \* the last two index_document calls, oldest first
    lookup,      \* the last get_page_for_char_position call (at most one)
    req,         \* the POST /ingest requests: request -> handler state
    delivered,   \* the webhook events the receiver got, in order
    audit_text,  \* the contract text handed to audit_contract
    fields,      \* the extracted_fields handed to audit_contract
    llm,         \* the LLM client: configured or not, and what its call does
    audited,     \* the last audit_contract call (at most one)
    extraction,  \* the last extract_fields call (at most one)
    asked        \* the last retrieval or POST /ask call (at most one)

auditVars == <<audit_text, fields, llm, audited, extraction>>

vars == <<uploads, metadata, collection, cfg, runs, lookup, req, delivered,
          auditVars, asked>>

----------------------------------------------------------------------------
(* Bounds of the model.                                                     *)

MaxPages == 2
MaxDocChars == 3
MaxChunk == 2
PosMargin == 2
MaxBatch == 2

----------------------------------------------------------------------------
(* Python helpers.                                                          *)

NL == "\n"

\* Characters a page text is drawn from: one printing, one whitespace (the
\* same character extract_text appends after every page).
Chars == {"a", NL}

Whitespace == {" ", NL}

Min(a, b) == IF a <= b THEN a ELSE b

Max(a, b) == IF a >= b THEN a ELSE b

\* s[lo:hi] for 0 <= lo
Slice(s, lo, hi) == SubSeq(s, Min(lo, Len(s)) + 1, Min(hi, Len(s)))

\* not s.strip()
IsBlank(s) == \A k \in 1..Len(s) : s[k] \in Whitespace

RECURSIVE SumLen(_)
SumLen(ss) == IF ss = <<>> THEN 0 ELSE Len(Head(ss)) + SumLen(Tail(ss))

\* every text of exactly n characters
RECURSIVE TextsOfLen(_)
TextsOfLen(n) ==
    IF n = 0 THEN {<<>>}
    ELSE {Append(t, c) : t \in TextsOfLen(n - 1), c \in Chars}

\* every sequence of at most n page texts holding at most budget characters
RECURSIVE PageSeqs(_, _)
PageSeqs(n, budget) ==
    IF n = 0 THEN {<<>>}
    ELSE {<<>>} \cup
         UNION {{<<t>> \o rest : rest \in PageSeqs(n - 1, budget - Len(t))} :
                t \in UNION {TextsOfLen(k) : k \in 0..budget}}

\* A PDF as the two parsers see it.  primary_ok: pdfplumber reads every page;
\* otherwise it raises after primary_done pages were processed (0: on open or
\* on the first page).  secondary_ok: PyPDF2 reads every page.
PdfFiles ==
    UNION {{[pages |-> ps, primary_ok |-> TRUE, primary_done |-> Len(ps),
             secondary_ok |-> TRUE]} \cup
           {[pages |-> ps, primary_ok |-> FALSE, primary_done |-> k,
             secondary_ok |-> s] :
                k \in 0..Max(Len(ps) - 1, 0), s \in BOOLEAN} :
           ps \in PageSeqs(MaxPages, MaxDocChars)}

----------------------------------------------------------------------------
(* PDFService.save_pdf                                                      *)

\* mutant: the same id for every upload
NewDocumentIdFixed(stored) == 1

\* uuid.uuid4(): an id no stored upload has
NewDocumentId(stored) == Cardinality(DOMAIN stored) + 1

\* PDFService.save_pdf: writes upload_dir/<document_id>.pdf
save_pdf(stored, file) == (NewDocumentId(stored) :> file) @@ stored

----------------------------------------------------------------------------
(* PDFService.extract_text                                                  *)

EmptyExtraction ==
    [text_by_page |-> <<>>, full_text |-> <<>>, char_offset |-> 0,
     page_offsets |-> <<>>]

PageEntry(page_num, page_text, char_offset) ==
    [page |-> page_num, text |-> page_text, char_start |-> char_offset,
     char_end |-> char_offset + Len(page_text)]

\* mutant: the separator only between pages
FullTextJoin(full_text, page_text) ==
    IF full_text = <<>> THEN page_text ELSE full_text \o <<NL>> \o page_text

FullTextAppend(full_text, page_text) == full_text \o page_text \o <<NL>>

AdvanceOffset(char_offset, page_text) == char_offset + Len(page_text) + 1

\* one iteration of either parser's page loop
ProcessPage(acc, page_num, page_text) ==
    [text_by_page |->
        Append(acc.text_by_page, PageEntry(page_num, page_text, acc.char_offset)),
     full_text |-> FullTextAppend(acc.full_text, page_text),
     page_offsets |-> Append(acc.page_offsets, acc.char_offset),
     char_offset |-> AdvanceOffset(acc.char_offset, page_text)]

\* enumerate(pages, 1) from page number `from` up to `upto`
RECURSIVE ParsePages(_, _, _, _)
ParsePages(acc, pages, from, upto) ==
    IF from > upto THEN acc
    ELSE ParsePages(ProcessPage(acc, from, pages[from]), pages, from + 1, upto)

MakeMetadata(document_id, acc) ==
    [document_id |-> document_id,
     text |-> acc.full_text,
     pages |-> acc.text_by_page,
     page_offsets |-> acc.page_offsets,
     total_chars |-> Len(acc.full_text)]

\* What the except branch starts from: the accumulators as the primary parser
\* left them.
FallbackStart(partial) == partial

\* [ok, meta]: ok = FALSE when the call raises (nothing is written then)
extract_text(document_id, file) ==
    LET primary == ParsePages(EmptyExtraction, file.pages, 1, file.primary_done)
    IN  IF file.primary_ok
        THEN [ok |-> TRUE, meta |-> MakeMetadata(document_id, primary)]
        ELSE IF file.secondary_ok
        THEN [ok |-> TRUE,
              meta |-> MakeMetadata(document_id,
                          ParsePages(FallbackStart(primary), file.pages, 1,
                                     Len(file.pages)))]
        ELSE [ok |-> FALSE, meta |-> MakeMetadata(document_id, EmptyExtraction)]

----------------------------------------------------------------------------
(* PDFService.get_page_for_char_position                                    *)

\* mutant: the last page as the answer when no entry matches
NoPageFoundLast(page_offsets) == Len(page_offsets)

\* the return after the loop
NoPageFound(page_offsets) == 1

RECURSIVE ScanOffsets(_, _, _)
ScanOffsets(page_offsets, char_pos, i) ==
    IF i > Len(page_offsets) THEN NoPageFound(page_offsets)
    ELSE IF i < Len(page_offsets) /\ char_pos >= page_offsets[i]
                                  /\ char_pos < page_offsets[i + 1] THEN i
    ELSE IF i = Len(page_offsets) /\ char_pos >= page_offsets[i] THEN i
    ELSE ScanOffsets(page_offsets, char_pos, i + 1)

\* mutant: the loop without its branch for the last entry
GetPageWithoutLastBranch(page_offsets, char_pos) ==
    IF page_offsets # <<>> /\ char_pos >= page_offsets[Len(page_offsets)]
    THEN NoPageFound(page_offsets)
    ELSE ScanOffsets(page_offsets, char_pos, 1)

get_page_for_char_position(page_offsets, char_pos) ==
    ScanOffsets(page_offsets, char_pos, 1)

----------------------------------------------------------------------------
(* RAGService.index_document                                                *)

\* f"{document_id}_page{page_num}_chunk{i}": the id is fixed-width, so the
\* formatted string determines the three parts and the triple stands for it.
ChunkId(document_id, page_num, i) == <<document_id, page_num, i>>

\* mutant: the offset within the page, without the page's start
ChunkStartInPage(page_start, i) == i

ChunkStart(page_start, i) == page_start + i

\* mutant: an end one past the window
ChunkEndInclusive(page_start, i, chunk, page_end) ==
    page_start + i + Len(chunk) + 1

ChunkEnd(page_start, i, chunk, page_end) ==
    Min(page_start + i + Len(chunk), page_end)

PageWindow(page_text, i, chunk_size) == Slice(page_text, i, i + chunk_size)

MakeChunk(document_id, page_info, i, chunk) ==
    [id |-> ChunkId(document_id, page_info.page, i),
     text |-> chunk,
     metadata |->
        [document_id |-> document_id,
         page |-> page_info.page,
         char_start |-> ChunkStart(page_info.char_start, i),
         char_end |-> ChunkEnd(page_info.char_start, i, chunk,
                               page_info.char_end)]]

\* for i in range(i, len(page_text), step), step >= 1
RECURSIVE PageChunks(_, _, _, _, _)
PageChunks(document_id, page_info, i, chunk_size, step) ==
    IF i >= Len(page_info.text) THEN <<>>
    ELSE LET chunk == PageWindow(page_info.text, i, chunk_size)
             rest == PageChunks(document_id, page_info, i + step, chunk_size, step)
         IN  IF IsBlank(chunk) THEN rest
             ELSE <<MakeChunk(document_id, page_info, i, chunk)>> \o rest

RECURSIVE DocChunks(_, _, _, _, _)
DocChunks(document_id, pages, p, chunk_size, step) ==
    IF p > Len(pages) THEN <<>>
    ELSE (IF step < 0 THEN <<>>
          ELSE PageChunks(document_id, pages[p], 0, chunk_size, step))
         \o DocChunks(document_id, pages, p + 1, chunk_size, step)

\* range() raises ValueError for a zero step, on the first page
ChunkingRaises(meta, chunk_size, chunk_overlap) ==
    chunk_size - chunk_overlap = 0 /\ meta.pages # <<>>

ChunkIds(chunks) == {chunks[k].id : k \in 1..Len(chunks)}

HasDuplicateIds(chunks) ==
    \E j, k \in 1..Len(chunks) : j # k /\ chunks[j].id = chunks[k].id

RECURSIVE NewEntries(_, _)
NewEntries(coll, chunks) ==
    IF chunks = <<>> THEN <<>>
    ELSE IF Head(chunks).id \in ChunkIds(coll)
         THEN NewEntries(coll, Tail(chunks))
         ELSE <<Head(chunks)>> \o NewEntries(coll, Tail(chunks))

\* mutant: every record of the batch is appended
AddRecordsAlways(coll, chunks) == coll \o chunks

\* What add() does with ids the collection already holds: they are skipped
\* with a warning, the stored records stay.
AddRecords(coll, chunks) == coll \o NewEntries(coll, chunks)

\* the records of a batch ahead of the first one that repeats an id
RECURSIVE UntilRepeat(_, _)
UntilRepeat(chunks, k) ==
    IF k > Len(chunks) \/ chunks[k].id \in ChunkIds(SubSeq(chunks, 1, k - 1))
    THEN <<>>
    ELSE <<chunks[k]>> \o UntilRepeat(chunks, k + 1)

\* mutant: a batch repeating an id is written up to the repeated id
CollectionAddPartial(coll, chunks) ==
    IF chunks = <<>> THEN [result |-> "ValueError", collection |-> coll]
    ELSE IF HasDuplicateIds(chunks)
    THEN [result |-> "DuplicateIDError",
          collection |-> AddRecords(coll, UntilRepeat(chunks, 1))]
    ELSE [result |-> "ok", collection |-> AddRecords(coll, chunks)]

\* collection.add(ids, embeddings, documents, metadatas): an empty batch and a
\* batch repeating an id are refused before anything is written.
CollectionAdd(coll, chunks) ==
    IF chunks = <<>> THEN [result |-> "ValueError", collection |-> coll]
    ELSE IF HasDuplicateIds(chunks)
    THEN [result |-> "DuplicateIDError", collection |-> coll]
    ELSE [result |-> "ok", collection |-> AddRecords(coll, chunks)]

\* [result, chunked, chunks, collection]; embed_ok: embedding_model.encode returns
index_document(stored, coll, document_id, chunk_size, chunk_overlap, embed_ok) ==
    IF document_id \notin DOMAIN stored
    THEN [result |-> "FileNotFoundError", chunked |-> FALSE, chunks |-> <<>>,
          collection |-> coll]
    ELSE IF ChunkingRaises(stored[document_id], chunk_size, chunk_overlap)
    THEN [result |-> "ValueError", chunked |-> FALSE, chunks |-> <<>>,
          collection |-> coll]
    ELSE LET chunks == DocChunks(document_id, stored[document_id].pages, 1,
                                 chunk_size, chunk_size - chunk_overlap)
             added == CollectionAdd(coll, chunks)
         IN  IF ~embed_ok
             THEN [result |-> "EmbeddingError", chunked |-> TRUE,
                   chunks |-> chunks, collection |-> coll]
             ELSE [result |-> added.result, chunked |-> TRUE,
                   chunks |-> chunks, collection |-> added.collection]

----------------------------------------------------------------------------
(* RAGService.search, RAGService.get_context_for_question, POST /ask        *)

DefaultTopK == 5
PreviewLength == 200

\* The document_ids argument: not given (None), or a list of ids.
NoDocumentIds == [given |-> FALSE, ids |-> <<>>]

DocumentIds(ids) == [given |-> TRUE, ids |-> ids]

\* the where clause: None unless document_ids is truthy
WhereClause(document_ids) ==
    IF document_ids.given /\ document_ids.ids # <<>>
    THEN [filter |-> TRUE,
          ids |-> {document_ids.ids[k] : k \in 1..Len(document_ids.ids)}]
    ELSE [filter |-> FALSE, ids |-> {}]

PassesWhere(record, where) ==
    ~where.filter \/ record.metadata.document_id \in where.ids

\* collection.query: the records passing the where clause, nearest first, at
\* most n_results of them.  ranking lists the positions of the collection by
\* distance from the query embedding; from is the rank looked at.
RECURSIVE Query(_, _, _, _, _)
Query(coll, ranking, where, n_results, from) ==
    IF from > Len(ranking) \/ n_results = 0 THEN <<>>
    ELSE IF PassesWhere(coll[ranking[from]], where)
    THEN <<[text |-> coll[ranking[from]].text,
            metadata |-> coll[ranking[from]].metadata,
            distance |-> from]>>
         \o Query(coll, ranking, where, n_results - 1, from + 1)
    ELSE Query(coll, ranking, where, n_results, from + 1)

\* RAGService.search, the query embedding given
search(coll, ranking, document_ids, top_k) ==
    Query(coll, ranking, WhereClause(document_ids), top_k, 1)

\* "\n\n".join(context_parts)
RECURSIVE JoinParts(_)
JoinParts(parts) ==
    IF parts = <<>> THEN <<>>
    ELSE IF Len(parts) = 1 THEN parts[1]
    ELSE parts[1] \o <<NL, NL>> \o JoinParts(Tail(parts))

\* mutant: the whole chunk text as the preview
CitationFullText(result) ==
    [document_id |-> result.metadata.document_id,
     page |-> result.metadata.page,
     char_range |-> [start |-> result.metadata.char_start,
                     end |-> result.metadata.char_end],
     text |-> result.text]

Citation(result) ==
    [document_id |-> result.metadata.document_id,
     page |-> result.metadata.page,
     char_range |-> [start |-> result.metadata.char_start,
                     end |-> result.metadata.char_end],
     text |-> Slice(result.text, 0, PreviewLength)]

\* RAGService.get_context_for_question: [results, context, citations]
get_context_for_question(coll, ranking, document_ids, top_k) ==
    LET results == search(coll, ranking, document_ids, top_k)
    IN  [results |-> results,
         context |-> JoinParts([k \in 1..Len(results) |-> results[k].text]),
         citations |-> [k \in 1..Len(results) |-> Citation(results[k])]]

\* LLMService.answer_question: [answer, llm_calls]
answer_question(client) ==
    IF ~client.configured
    THEN [answer |-> "LLM service not configured. Please set OPENAI_API_KEY.",
          llm_calls |-> 0]
    ELSE IF client.reply = "raises"
    THEN [answer |-> "Error generating answer", llm_calls |-> 1]
    ELSE [answer |-> "answer of the model", llm_calls |-> 1]

NoInformation == "No relevant information found in the uploaded documents."

\* mutant: the LLM is asked also when the context is empty
AskAlways(coll, ranking, document_ids, client, embed_ok) ==
    LET got == get_context_for_question(coll, ranking, document_ids, DefaultTopK)
    IN  IF ~embed_ok
        THEN [status_code |-> 500, answer |-> "", citations |-> <<>>,
              llm_calls |-> 0, got |-> <<>>]
        ELSE [status_code |-> 200, answer |-> answer_question(client).answer,
              citations |-> got.citations,
              llm_calls |-> answer_question(client).llm_calls, got |-> <<got>>]

\* POST /ask.  embed_ok: embedding the question returns; otherwise search
\* raises and the handler answers 500.
ask_question(coll, ranking, document_ids, client, embed_ok) ==
    LET got == get_context_for_question(coll, ranking, document_ids, DefaultTopK)
    IN  IF ~embed_ok
        THEN [status_code |-> 500, answer |-> "", citations |-> <<>>,
              llm_calls |-> 0, got |-> <<>>]
        ELSE IF got.context = <<>>
        THEN [status_code |-> 200, answer |-> NoInformation,
              citations |-> <<>>, llm_calls |-> 0, got |-> <<got>>]
        ELSE [status_code |-> 200, answer |-> answer_question(client).answer,
              citations |-> got.citations,
              llm_calls |-> answer_question(client).llm_calls, got |-> <<got>>]

----------------------------------------------------------------------------
(* POST /ingest: state of a request handler.                                *)

Requests == {"r1", "r2"}

\* pc: "idle" (no such request), "save", "extract" (the two halves of one loop
\* iteration), "done" (responded).  i: index of the file being processed.
\* saved: the ids save_pdf returned, in file order.  tasks: what was added to
\* BackgroundTasks.  pending: the tasks still to run after the response.
IdleRequest ==
    [pc |-> "idle", batch |-> <<>>, i |-> 1, saved |-> <<>>,
     document_ids |-> <<>>, tasks |-> <<>>, pending |-> <<>>,
     response |-> <<>>]

NoRequests == [r \in Requests |-> IdleRequest]

----------------------------------------------------------------------------
(* LLMService.audit_contract and its helpers, on character sequences.       *)

UpperCase ==
    <<"A", "B", "C", "D", "E", "F", "G", "H", "I", "J", "K", "L", "M",
      "N", "O", "P", "Q", "R", "S", "T", "U", "V", "W", "X", "Y", "Z">>

LowerCase ==
    <<"a", "b", "c", "d", "e", "f", "g", "h", "i", "j", "k", "l", "m",
      "n", "o", "p", "q", "r", "s", "t", "u", "v", "w", "x", "y", "z">>

Digits == <<"0", "1", "2", "3", "4", "5", "6", "7", "8", "9">>

LowerChar(c) ==
    IF \E k \in 1..26 : UpperCase[k] = c
    THEN LowerCase[CHOOSE k \in 1..26 : UpperCase[k] = c]
    ELSE c

\* text.lower()
Lower(text) == [k \in 1..Len(text) |-> LowerChar(text[k])]

\* sub in text
Contains(sub, text) ==
    \E k \in 0..(Len(text) - Len(sub)) : SubSeq(text, k + 1, k + Len(sub)) = sub

IsDigit(c) == \E k \in 1..10 : Digits[k] = c

DigitValue(c) == (CHOOSE k \in 1..10 : Digits[k] = c) - 1

\* int(match)
RECURSIVE IntOf(_)
IntOf(digits) ==
    IF digits = <<>> THEN 0
    ELSE 10 * IntOf(SubSeq(digits, 1, Len(digits) - 1))
         + DigitValue(digits[Len(digits)])

\* the first position >= i of text that holds no character of the class
RECURSIVE SkipWhile(_, _, _)
SkipWhile(text, i, class) ==
    IF i <= Len(text) /\ text[i] \in class THEN SkipWhile(text, i + 1, class)
    ELSE i

DigitChars == {Digits[k] : k \in 1..10}

RegexSpace == {" ", NL, "\t"}

Word_day == <<"d", "a", "y">>
Word_30 == <<"3", "0">>
Word_auto == <<"a", "u", "t", "o">>
Word_renew == <<"r", "e", "n", "e", "w">>
Word_unlimited == <<"u", "n", "l", "i", "m", "i", "t", "e", "d">>
Word_liability == <<"l", "i", "a", "b", "i", "l", "i", "t", "y">>
Word_all == <<"a", "l", "l">>
Word_any == <<"a", "n", "y">>
Word_every == <<"e", "v", "e", "r", "y">>

\* re.findall(r'(\d+)\s*(?:day|days|d)', text) scanning from position i: the
\* digit runs that are followed, after optional whitespace, by a "d".  A match
\* takes the whole run, and the scan resumes behind the matched unit.
RECURSIVE FindNotice(_, _)
FindNotice(text, i) ==
    IF i > Len(text) THEN <<>>
    ELSE IF ~IsDigit(text[i]) THEN FindNotice(text, i + 1)
    ELSE LET j == SkipWhile(text, i, DigitChars)
             k == SkipWhile(text, j, RegexSpace)
         IN  IF k <= Len(text) /\ text[k] = "d"
             THEN <<SubSeq(text, i, j - 1)>> \o
                  FindNotice(text,
                      IF Slice(text, k - 1, k + 2) = Word_day THEN k + 3 ELSE k + 1)
             ELSE FindNotice(text, i + 1)

\* for match in matches: if int(match) < 30: ...; break
RECURSIVE FirstShortNotice(_)
FirstShortNotice(matches) ==
    IF matches = <<>> THEN <<>>
    ELSE IF IntOf(Head(matches)) < 30 THEN <<Head(matches)>>
    ELSE FirstShortNotice(Tail(matches))

\* text.split('\n')
RECURSIVE SplitLines(_)
SplitLines(text) ==
    IF \A k \in 1..Len(text) : text[k] # NL THEN <<text>>
    ELSE LET n == CHOOSE k \in 1..Len(text) :
                      text[k] = NL /\ \A m \in 1..(k - 1) : text[m] # NL
         IN  <<SubSeq(text, 1, n - 1)>> \o
             SplitLines(SubSeq(text, n + 1, Len(text)))

\* '\n'.join(lines)
RECURSIVE JoinLines(_)
JoinLines(lines) ==
    IF lines = <<>> THEN <<>>
    ELSE IF Len(lines) = 1 THEN Head(lines)
    ELSE Head(lines) \o <<NL>> \o JoinLines(Tail(lines))

\* LLMService._find_evidence(text, *keywords)
find_evidence(text, keywords) ==
    LET lines == SplitLines(text)
        hits == {i \in 1..Len(lines) :
                    \A w \in keywords : Contains(w, Lower(lines[i]))}
    IN  IF hits = {} THEN <<"Evidence not found in text">>
        ELSE LET i == CHOOSE h \in hits : \A o \in hits : h <= o
             IN  JoinLines(SubSeq(lines, Max(1, i - 2), Min(Len(lines), i + 2)))

Finding(severity, category, description, evidence) ==
    [severity |-> severity, category |-> category, description |-> description,
     evidence |-> evidence, char_range |-> "None", page |-> "None"]

\* the guard in front of the notice search
NoticeSearchEnabled(text) ==
    Contains(Word_30, text) /\ Contains(Word_day, Lower(text))

\* rule 1: auto-renewal with short notice
AutoRenewalFindings(text, extracted_fields) ==
    IF extracted_fields.auto_renewal = "true" /\ NoticeSearchEnabled(text)
    THEN LET short == FirstShortNotice(FindNotice(Lower(text), 1))
         IN  IF short = <<>> THEN <<>>
             ELSE <<Finding("high", "auto_renewal",
                            <<"Auto-renewal with only ">> \o short[1]
                                \o <<" days notice">>,
                            find_evidence(text, {Word_auto, Word_renew}))>>
    ELSE <<>>

\* mutant: the two words are looked for in the text as written
UnlimitedLiabilityCaseSensitive(text) ==
    IF Contains(Word_unlimited, text) /\ Contains(Word_liability, text)
    THEN <<Finding("high", "liability", <<"Unlimited liability clause detected">>,
                   find_evidence(text, {Word_unlimited, Word_liability}))>>
    ELSE <<>>

\* rule 2: unlimited liability
UnlimitedLiabilityFindings(text) ==
    IF Contains(Word_unlimited, Lower(text)) /\ Contains(Word_liability, Lower(text))
    THEN <<Finding("high", "liability", <<"Unlimited liability clause detected">>,
                   find_evidence(text, {Word_unlimited, Word_liability}))>>
    ELSE <<>>

\* rule 3: liability cap.  A cap is "null" (None or no such key), or a dict;
\* an empty dict is falsy.  amount: "missing" (no such key), "null", or a number.
LiabilityCapFindings(extracted_fields) ==
    LET cap == extracted_fields.liability_cap
    IN  IF cap.kind = "dict" /\ cap.keys # {}
        THEN IF cap.amount = "missing" \/ cap.amount = "null" \/ cap.amount = "0"
             THEN <<Finding("medium", "liability",
                            <<"No liability cap specified">>,
                            <<"Liability cap field is null or zero">>)>>
             ELSE <<>>
        ELSE <<>>

\* rule 4: broad indemnity.  indemnity: kind "null" or "str"
BroadIndemnityFindings(extracted_fields) ==
    LET indemnity == extracted_fields.indemnity
    IN  IF indemnity.kind = "str" /\ indemnity.str # <<>>
            /\ \E w \in {Word_all, Word_any, Word_every, Word_unlimited} :
                    Contains(w, Lower(indemnity.str))
        THEN <<Finding("high", "indemnity", <<"Broad indemnity clause detected">>,
                       Slice(indemnity.str, 0, 200))>>
        ELSE <<>>

\* mutant: the liability cap check ahead of the unlimited liability check
RuleFindingsCapFirst(text, extracted_fields) ==
    AutoRenewalFindings(text, extracted_fields)
        \o LiabilityCapFindings(extracted_fields)
        \o UnlimitedLiabilityFindings(text)
        \o BroadIndemnityFindings(extracted_fields)

RuleFindings(text, extracted_fields) ==
    AutoRenewalFindings(text, extracted_fields)
        \o UnlimitedLiabilityFindings(text)
        \o LiabilityCapFindings(extracted_fields)
        \o BroadIndemnityFindings(extracted_fields)

\* LLMService._llm_audit.  reply: "raises" (the API call or json.loads raises, or
\* the JSON is not an object), "no_key" (an object without "findings"), "null"
\* ({"findings": null}), "list" (a list of findings).  [value: "list" | "null"]
llm_audit(client) ==
    IF client.reply = "raises" \/ client.reply = "no_key"
    THEN [value |-> "list", findings |-> <<>>]
    ELSE IF client.reply = "null" THEN [value |-> "null", findings |-> <<>>]
    ELSE [value |-> "list", findings |-> client.findings]

\* [raised, findings]: findings.extend(None) raises TypeError
audit_contract(text, extracted_fields, client) ==
    LET rules == RuleFindings(text, extracted_fields)
    IN  IF ~client.configured THEN [raised |-> "", findings |-> rules]
        ELSE IF llm_audit(client).value = "null"
        THEN [raised |-> "TypeError", findings |-> <<>>]
        ELSE [raised |-> "", findings |-> rules \o llm_audit(client).findings]

\* the result dict _basic_extraction starts from
EmptyFieldSet ==
    [parties |-> <<>>, effective_date |-> "null", term |-> "null",
     governing_law |-> "null", payment_terms |-> "null", termination |-> "null",
     auto_renewal |-> "null", confidentiality |-> "null", indemnity |-> "null",
     liability_cap |-> "null", signatories |-> <<>>]

\* mutant: the keywords are looked for in the text as written
BasicExtractionCaseSensitive(text) ==
    IF Contains(Word_auto, text) /\ Contains(Word_renew, text)
    THEN [EmptyFieldSet EXCEPT !.auto_renewal = "true"]
    ELSE EmptyFieldSet

\* LLMService._basic_extraction
basic_extraction(text) ==
    IF Contains(Word_auto, Lower(text)) /\ Contains(Word_renew, Lower(text))
    THEN [EmptyFieldSet EXCEPT !.auto_renewal = "true"]
    ELSE EmptyFieldSet

\* LLMService.extract_fields.  reply: "raises" (the API call raises),
\* "unparseable" (json.loads raises on the content), "object" (the content is
\* a JSON object, returned as parsed).  [raised, fields]
extract_fields(text, client) ==
    IF ~client.configured THEN [raised |-> "", fields |-> basic_extraction(text)]
    ELSE IF client.reply = "raises" \/ client.reply = "unparseable"
    THEN [raised |-> "", fields |-> basic_extraction(text)]
    ELSE [raised |-> "", fields |-> client.object]

NoFields ==
    [auto_renewal |-> "null",
     liability_cap |-> [kind |-> "null", keys |-> {}, amount |-> "missing"],
     indemnity |-> [kind |-> "null", str |-> <<>>]]

NoClient == [configured |-> FALSE, reply |-> "raises", findings |-> <<>>]

AuditIdle ==
    /\ audit_text = <<>>
    /\ fields = NoFields
    /\ llm = NoClient
    /\ audited = <<>>
    /\ extraction = <<>>
    /\ asked = <<>>

----------------------------------------------------------------------------
(* The document life cycle: one stored upload, extracted, indexed,          *)
(* re-indexed and looked up.                                                *)

ChunkConfigs ==
    {[chunk_size |-> cs, chunk_overlap |-> co] :
        cs \in 1..MaxChunk, co \in 0..MaxChunk}

Init ==
    /\ uploads \in {save_pdf(<<>>, f) : f \in PdfFiles}
    /\ metadata = <<>>
    /\ collection = <<>>
    /\ cfg \in ChunkConfigs
    /\ runs = <<>>
    /\ lookup = <<>>
    /\ req = NoRequests
    /\ delivered = <<>>
    /\ AuditIdle

\* pdf_service.extract_text(document_id) on a saved upload
ExtractText(d) ==
    /\ d \in DOMAIN uploads
    /\ d \notin DOMAIN metadata
    /\ extract_text(d, uploads[d]).ok
    /\ metadata' = (d :> extract_text(d, uploads[d]).meta) @@ metadata
    /\ lookup' = <<>>
    /\ UNCHANGED <<uploads, collection, cfg, runs, req, delivered, auditVars, asked>>

LastTwo(s) == IF Len(s) > 2 THEN Tail(s) ELSE s

\* rag_service.index_document(document_id, text, chunk_size, chunk_overlap)
IndexDocument(d, embed_ok) ==
    LET r == index_document(metadata, collection, d, cfg.chunk_size,
                            cfg.chunk_overlap, embed_ok)
    IN  /\ d \in DOMAIN uploads
        /\ collection' = r.collection
        /\ runs' = LastTwo(Append(runs,
                      [document_id |-> d, result |-> r.result,
                       chunked |-> r.chunked, chunks |-> r.chunks,
                       before |-> collection, after |-> r.collection]))
        /\ lookup' = <<>>
        /\ UNCHANGED <<uploads, metadata, cfg, req, delivered, auditVars, asked>>

Next ==
    \/ \E d \in DOMAIN uploads : ExtractText(d)
    \/ \E d \in DOMAIN uploads, e \in BOOLEAN : IndexDocument(d, e)

Spec == Init /\ [][Next]_vars

----------------------------------------------------------------------------
(* The offset resolver: one stored upload, extracted and looked up.         *)

DefaultChunkSize == 1000
DefaultChunkOverlap == 200

DefaultConfig ==
    [chunk_size |-> DefaultChunkSize, chunk_overlap |-> DefaultChunkOverlap]

ResolverInit ==
    /\ uploads \in {save_pdf(<<>>, f) : f \in PdfFiles}
    /\ metadata = <<>>
    /\ collection = <<>>
    /\ cfg = DefaultConfig
    /\ runs = <<>>
    /\ lookup = <<>>
    /\ req = NoRequests
    /\ delivered = <<>>
    /\ AuditIdle

Positions(d) ==
    (0 - PosMargin) ..
        ((IF d \in DOMAIN metadata THEN metadata[d].total_chars ELSE 0) + PosMargin)

\* pdf_service.get_page_for_char_position(document_id, char_pos); get_metadata
\* raises FileNotFoundError when no metadata file exists
GetPage(d, char_pos) ==
    /\ lookup' =
          <<[document_id |-> d, char_pos |-> char_pos,
             result |-> IF d \in DOMAIN metadata THEN "ok" ELSE "FileNotFoundError",
             page |-> IF d \in DOMAIN metadata
                      THEN get_page_for_char_position(metadata[d].page_offsets,
                                                      char_pos)
                      ELSE 0]>>
    /\ UNCHANGED <<uploads, metadata, collection, cfg, runs, req, delivered, auditVars, asked>>

ResolverNext ==
    \/ \E d \in DOMAIN uploads : ExtractText(d)
    \/ \E d \in DOMAIN uploads : \E p \in Positions(d) : GetPage(d, p)

SpecResolver == ResolverInit /\ [][ResolverNext]_vars

----------------------------------------------------------------------------
(* POST /ingest: ingest_documents and the background tasks it schedules.    *)

\* file.filename.endswith('.pdf')
IsPdfName(filename) == filename \in {"contract.pdf"}

GoodPdf ==
    [pages |-> << <<"a">> >>, primary_ok |-> TRUE, primary_done |-> 1,
     secondary_ok |-> TRUE]

\* a page of whitespace only: it extracts, and yields no chunk
BlankPdf ==
    [pages |-> << <<NL>> >>, primary_ok |-> TRUE, primary_done |-> 1,
     secondary_ok |-> TRUE]

\* neither parser can read it
BrokenPdf ==
    [pages |-> << <<"a">> >>, primary_ok |-> FALSE, primary_done |-> 0,
     secondary_ok |-> FALSE]

\* An uploaded file: its name, its content, and whether the write of save_pdf
\* succeeds (save_ok = FALSE: open() raises, nothing is stored).
UploadFiles ==
    [filename : {"contract.pdf", "notes.txt"},
     save_ok : BOOLEAN,
     file : {GoodPdf, BlankPdf, BrokenPdf}]

RECURSIVE Batches(_)
Batches(n) ==
    IF n = 0 THEN {<<>>}
    ELSE Batches(n - 1) \cup
         {Append(b, u) : b \in {x \in Batches(n - 1) : Len(x) = n - 1},
                         u \in UploadFiles}

IndexTask(document_id) ==
    [kind |-> "index", document_id |-> document_id, filename |-> "",
     status |-> ""]

\* emit_event("ingest_complete", document_id, "success", ...)
SuccessEventTask(document_id) ==
    [kind |-> "webhook", document_id |-> document_id, filename |-> "",
     status |-> "success"]

\* emit_event("ingest_complete", file.filename, "error", str(e)): the file name
\* goes where the document id goes
ErrorEventTask(filename) ==
    [kind |-> "webhook", document_id |-> 0, filename |-> filename,
     status |-> "error"]

\* raise HTTPException: the response is built by the exception handler, so the
\* tasks added to the injected BackgroundTasks are not attached to it and
\* never run.
Raise(q, status_code) ==
    [q EXCEPT !.pc = "done", !.pending = <<>>,
              !.response = <<[status_code |-> status_code,
                              document_ids |-> <<>>]>>]

\* What the handler does when processing a file raised: the except branch.
OnFileError(q) ==
    Raise([q EXCEPT !.tasks = Append(@, ErrorEventTask(q.batch[q.i].filename))],
          500)

\* The first half of a loop iteration: the file name check, file.read() and
\* save_pdf.
IngestSave(r) ==
    LET q == req[r]
        u == q.batch[q.i]
    IN  /\ q.pc = "save"
        /\ q.i <= Len(q.batch)
        /\ IF ~IsPdfName(u.filename)
           THEN /\ req' = [req EXCEPT ![r] = Raise(q, 400)]
                /\ UNCHANGED uploads
           ELSE IF ~u.save_ok
           THEN /\ req' = [req EXCEPT ![r] = OnFileError(q)]
                /\ UNCHANGED uploads
           ELSE /\ uploads' = save_pdf(uploads, u.file)
                /\ req' = [req EXCEPT ![r].pc = "extract",
                                      ![r].saved =
                                          Append(@, NewDocumentId(uploads))]
        /\ UNCHANGED <<metadata, collection, cfg, runs, lookup, delivered, auditVars, asked>>

\* The second half: extract_text, the two add_task calls, document_ids.append.
IngestExtract(r) ==
    LET q == req[r]
        document_id == q.saved[Len(q.saved)]
        extracted == extract_text(document_id, uploads[document_id])
    IN  /\ q.pc = "extract"
        /\ IF extracted.ok
           THEN /\ metadata' = (document_id :> extracted.meta) @@ metadata
                /\ req' = [req EXCEPT
                             ![r].pc = "save",
                             ![r].i = @ + 1,
                             ![r].tasks = @ \o <<IndexTask(document_id),
                                                 SuccessEventTask(document_id)>>,
                             ![r].document_ids = Append(@, document_id)]
           ELSE /\ req' = [req EXCEPT ![r] = OnFileError(q)]
                /\ UNCHANGED metadata
        /\ UNCHANGED <<uploads, collection, cfg, runs, lookup, delivered, auditVars, asked>>

\* Leaving the handler without an exception: the empty-list check, or the
\* response after the last file, which carries the background tasks.
IngestRespond(r) ==
    LET q == req[r]
    IN  /\ q.pc = "save"
        /\ q.i > Len(q.batch)
        /\ req' = [req EXCEPT ![r] =
                      IF q.batch = <<>> THEN Raise(q, 400)
                      ELSE [q EXCEPT !.pc = "done", !.pending = q.tasks,
                                     !.response =
                                         <<[status_code |-> 200,
                                            document_ids |-> q.document_ids]>>]]
        /\ UNCHANGED <<uploads, metadata, collection, cfg, runs, lookup,
                       delivered, auditVars, asked>>

\* WebhookService.emit_event: returns silently without a webhook_url and when
\* the POST fails
emit_event(received, event, configured, post_ok) ==
    IF configured /\ post_ok THEN Append(received, event) ELSE received

\* mutant: a failing index task turns the response into an error
RunIndexTaskSurfacing(r, embed_ok) ==
    LET q == req[r]
        task == Head(q.pending)
        res == index_document(metadata, collection, task.document_id,
                              DefaultChunkSize, DefaultChunkOverlap, embed_ok)
    IN  /\ q.pc = "done"
        /\ q.pending # <<>>
        /\ task.kind = "index"
        /\ collection' = res.collection
        /\ runs' = LastTwo(Append(runs,
                      [document_id |-> task.document_id, result |-> res.result,
                       chunked |-> res.chunked, chunks |-> res.chunks,
                       before |-> collection, after |-> res.collection]))
        /\ req' = [req EXCEPT
                     ![r].pending = IF res.result = "ok" THEN Tail(@) ELSE <<>>,
                     ![r].response =
                         IF res.result = "ok" THEN @
                         ELSE <<[status_code |-> 500, document_ids |-> <<>>]>>]
        /\ UNCHANGED <<uploads, metadata, cfg, lookup, delivered, auditVars, asked>>

\* BackgroundTasks runs the tasks in order after the response was sent; a task
\* that raises ends the run, the tasks after it are not started.
RunIndexTask(r, embed_ok) ==
    LET q == req[r]
        task == Head(q.pending)
        res == index_document(metadata, collection, task.document_id,
                              DefaultChunkSize, DefaultChunkOverlap, embed_ok)
    IN  /\ q.pc = "done"
        /\ q.pending # <<>>
        /\ task.kind = "index"
        /\ collection' = res.collection
        /\ runs' = LastTwo(Append(runs,
                      [document_id |-> task.document_id, result |-> res.result,
                       chunked |-> res.chunked, chunks |-> res.chunks,
                       before |-> collection, after |-> res.collection]))
        /\ req' = [req EXCEPT ![r].pending =
                      IF res.result = "ok" THEN Tail(@) ELSE <<>>]
        /\ UNCHANGED <<uploads, metadata, cfg, lookup, delivered, auditVars, asked>>

RunWebhookTask(r, configured, post_ok) ==
    LET q == req[r]
        task == Head(q.pending)
    IN  /\ q.pc = "done"
        /\ q.pending # <<>>
        /\ task.kind = "webhook"
        /\ delivered' = emit_event(delivered, task, configured, post_ok)
        /\ req' = [req EXCEPT ![r].pending = Tail(@)]
        /\ UNCHANGED <<uploads, metadata, collection, cfg, runs, lookup, auditVars, asked>>

IngestInit ==
    /\ uploads = <<>>
    /\ metadata = <<>>
    /\ collection = <<>>
    /\ cfg = DefaultConfig
    /\ runs = <<>>
    /\ lookup = <<>>
    /\ req \in {[NoRequests EXCEPT !["r1"] =
                    [IdleRequest EXCEPT !.pc = "save", !.batch = b]] :
                b \in Batches(MaxBatch)}
    /\ delivered = <<>>
    /\ AuditIdle

IngestNext ==
    \/ \E r \in Requests : IngestSave(r)
    \/ \E r \in Requests : IngestExtract(r)
    \/ \E r \in Requests : IngestRespond(r)
    \/ \E r \in Requests, e \in BOOLEAN : RunIndexTask(r, e)
    \/ \E r \in Requests, c \in BOOLEAN, o \in BOOLEAN : RunWebhookTask(r, c, o)

SpecIngest == IngestInit /\ [][IngestNext]_vars

----------------------------------------------------------------------------
(* Auditing: a contract text and a field set, audited once.                 *)

MaxFrags == 2

\* "This agreement auto-renews every year with 10 days notice."
ScenarioText ==
    <<"T", "h", "i", "s", " ", "a", "g", "r", "e", "e", "m", "e", "n",
      "t", " ", "a", "u", "t", "o", "-", "r", "e", "n", "e", "w", "s",
      " ", "e", "v", "e", "r", "y", " ", "y", "e", "a", "r", " ", "w",
      "i", "t", "h", " ", "1", "0", " ", "d", "a", "y", "s", " ", "n",
      "o", "t", "i", "c", "e", ".">>

\* "30 days "
Frag_30days ==
    <<"3", "0", " ", "d", "a", "y", "s", " ">>

\* "10 days "
Frag_10days ==
    <<"1", "0", " ", "d", "a", "y", "s", " ">>

\* "Auto-renew "
Frag_autorenew ==
    <<"A", "u", "t", "o", "-", "r", "e", "n", "e", "w", " ">>

\* "\n"
Frag_newline ==
    <<"\n">>

\* "UNLIMITED "
Frag_unlimited ==
    <<"U", "N", "L", "I", "M", "I", "T", "E", "D", " ">>

\* "liability "
Frag_liability ==
    <<"l", "i", "a", "b", "i", "l", "i", "t", "y", " ">>

Fragments ==
    {Frag_30days, Frag_10days, Frag_autorenew, Frag_newline, Frag_unlimited,
     Frag_liability}

\* every text made of at most n fragments
RECURSIVE FragmentTexts(_)
FragmentTexts(n) ==
    IF n = 0 THEN {<<>>}
    ELSE FragmentTexts(n - 1) \cup
         {t \o f : t \in FragmentTexts(n - 1), f \in Fragments}

AuditTexts == {ScenarioText} \cup FragmentTexts(MaxFrags)

LiabilityCaps ==
    {[kind |-> "null", keys |-> {}, amount |-> "missing"],
     [kind |-> "dict", keys |-> {}, amount |-> "missing"],
     [kind |-> "dict", keys |-> {"currency"}, amount |-> "missing"],
     [kind |-> "dict", keys |-> {"amount", "currency"}, amount |-> "null"],
     [kind |-> "dict", keys |-> {"amount", "currency"}, amount |-> "0"],
     [kind |-> "dict", keys |-> {"amount", "currency"}, amount |-> "5"]}

Indemnities ==
    {[kind |-> "null", str |-> <<>>],
     [kind |-> "str", str |-> <<"A", "n", "y", " ", "l", "o", "s", "s">>],
     [kind |-> "str", str |-> <<"n", "o", "n", "e">>]}

FieldSets ==
    [auto_renewal : {"true", "false", "null"},
     liability_cap : LiabilityCaps,
     indemnity : Indemnities]

LlmFinding ==
    [severity |-> "low", category |-> "termination",
     description |-> <<"Unfavorable termination terms">>,
     evidence |-> <<"either party may terminate">>,
     char_range |-> "None", page |-> "None"]

\* a finding the model reports for the clause rule 2 looks for
LlmLiabilityFinding ==
    [severity |-> "high", category |-> "liability",
     description |-> <<"Liability is not limited">>,
     evidence |-> <<"unlimited liability">>,
     char_range |-> "None", page |-> "None"]

LlmClients ==
    {NoClient,
     [configured |-> TRUE, reply |-> "list", findings |-> <<LlmLiabilityFinding>>],
     [configured |-> TRUE, reply |-> "raises", findings |-> <<>>],
     [configured |-> TRUE, reply |-> "no_key", findings |-> <<>>],
     [configured |-> TRUE, reply |-> "null", findings |-> <<>>],
     [configured |-> TRUE, reply |-> "list", findings |-> <<>>],
     [configured |-> TRUE, reply |-> "list", findings |-> <<LlmFinding>>]}

DocsIdle ==
    /\ uploads = <<>>
    /\ metadata = <<>>
    /\ collection = <<>>
    /\ cfg = DefaultConfig
    /\ runs = <<>>
    /\ lookup = <<>>
    /\ req = NoRequests
    /\ delivered = <<>>
    /\ asked = <<>>

AuditInit ==
    /\ DocsIdle
    /\ audit_text \in AuditTexts
    /\ fields \in FieldSets
    /\ llm \in LlmClients
    /\ audited = <<>>
    /\ extraction = <<>>

\* llm_service.audit_contract(text, extracted_fields)
AuditContract ==
    /\ audited = <<>>
    /\ audited' = <<audit_contract(audit_text, fields, llm)>>
    /\ UNCHANGED <<uploads, metadata, collection, cfg, runs, lookup, req,
                   delivered, audit_text, fields, llm, extraction, asked>>

AuditNext == AuditContract

SpecAudit == AuditInit /\ [][AuditNext]_vars

----------------------------------------------------------------------------
(* Field extraction: a contract text, extracted once.                       *)

\* a JSON object as the model may return it
LlmFieldSet ==
    [EmptyFieldSet EXCEPT !.auto_renewal = "false",
                          !.term = <<"1", " ", "y", "e", "a", "r">>]

ExtractClients ==
    {[configured |-> FALSE, reply |-> "raises", findings |-> <<>>,
      object |-> EmptyFieldSet],
     [configured |-> FALSE, reply |-> "object", findings |-> <<>>,
      object |-> LlmFieldSet],
     [configured |-> TRUE, reply |-> "raises", findings |-> <<>>,
      object |-> EmptyFieldSet],
     [configured |-> TRUE, reply |-> "unparseable", findings |-> <<>>,
      object |-> EmptyFieldSet],
     [configured |-> TRUE, reply |-> "object", findings |-> <<>>,
      object |-> LlmFieldSet]}

ExtractInit ==
    /\ DocsIdle
    /\ audit_text \in AuditTexts
    /\ fields = NoFields
    /\ llm \in ExtractClients
    /\ audited = <<>>
    /\ extraction = <<>>

\* llm_service.extract_fields(text)
ExtractFields ==
    /\ extraction = <<>>
    /\ extraction' = <<extract_fields(audit_text, llm)>>
    /\ UNCHANGED <<uploads, metadata, collection, cfg, runs, lookup, req,
                   delivered, audit_text, fields, llm, audited, asked>>

ExtractNext == ExtractFields

SpecExtract == ExtractInit /\ [][ExtractNext]_vars

----------------------------------------------------------------------------
(* Retrieval: two stored uploads, extracted, indexed with the default chunk *)
(* parameters, searched and asked about.                                    *)

\* c * n
Rep(c, n) == [k \in 1..n |-> c]

\* a page text one character longer than a citation preview
LongText == Rep("a", PreviewLength + 1)

ReadablePdf(pages) ==
    [pages |-> pages, primary_ok |-> TRUE, primary_done |-> Len(pages),
     secondary_ok |-> TRUE]

\* a document of one long page and one of two short pages
AskFiles ==
    {ReadablePdf(<<LongText>>), ReadablePdf(<<<<"a">>, <<"a", "a">>>>)}

\* every order of the n positions of the collection
Rankings(n) ==
    {r \in [1..n -> 1..n] : \A j, k \in 1..n : r[j] = r[k] => j = k}

\* the document_ids arguments: none, the empty list, one stored or unknown
\* id, all stored ids
DocumentIdArgs ==
    {NoDocumentIds, DocumentIds(<<>>)}
        \cup {DocumentIds(<<d>>) :
                 d \in DOMAIN uploads \cup {NewDocumentId(uploads)}}
        \cup {DocumentIds(<<p[1], p[2]>>) :
                 p \in {q \in (DOMAIN uploads) \X (DOMAIN uploads) :
                           q[1] # q[2]}}

TopKs == {1, DefaultTopK}

AskClients ==
    {NoClient,
     [configured |-> TRUE, reply |-> "raises", findings |-> <<>>],
     [configured |-> TRUE, reply |-> "list", findings |-> <<>>]}

AskInit ==
    /\ uploads \in {save_pdf(save_pdf(<<>>, p[1]), p[2]) :
                       p \in {q \in AskFiles \X AskFiles : q[1] # q[2]}}
    /\ metadata = <<>>
    /\ collection = <<>>
    /\ cfg = DefaultConfig
    /\ runs = <<>>
    /\ lookup = <<>>
    /\ req = NoRequests
    /\ delivered = <<>>
    /\ audit_text = <<>>
    /\ fields = NoFields
    /\ llm \in AskClients
    /\ audited = <<>>
    /\ extraction = <<>>
    /\ asked = <<>>

\* rag_service.get_context_for_question(question, document_ids, top_k)
GetContext(document_ids, ranking, top_k) ==
    LET got == get_context_for_question(collection, ranking, document_ids, top_k)
    IN  /\ asked' = <<[call |-> "get_context", document_ids |-> document_ids,
                       searched |-> TRUE, results |-> got.results,
                       context |-> got.context, citations |-> got.citations,
                       response |-> <<>>]>>
        /\ UNCHANGED <<uploads, metadata, collection, cfg, runs, lookup, req,
                       delivered, auditVars>>

\* POST /ask with a question and document_ids
AskQuestion(document_ids, ranking, embed_ok) ==
    LET r == ask_question(collection, ranking, document_ids, llm, embed_ok)
    IN  /\ asked' = <<[call |-> "ask", document_ids |-> document_ids,
                       searched |-> r.got # <<>>,
                       results |-> IF r.got = <<>> THEN <<>> ELSE r.got[1].results,
                       context |-> IF r.got = <<>> THEN <<>> ELSE r.got[1].context,
                       citations |-> IF r.got = <<>> THEN <<>>
                                     ELSE r.got[1].citations,
                       response |-> <<[status_code |-> r.status_code,
                                       answer |-> r.answer,
                                       citations |-> r.citations,
                                       llm_calls |-> r.llm_calls]>>]>>
        /\ UNCHANGED <<uploads, metadata, collection, cfg, runs, lookup, req,
                       delivered, auditVars>>

\* one retrieval or question per behaviour, put to the index as it then is
AskNext ==
    \/ \E d \in DOMAIN uploads : asked = <<>> /\ ExtractText(d)
    \/ \E d \in DOMAIN uploads, e \in BOOLEAN :
          asked = <<>> /\ IndexDocument(d, e)
    \/ \E ids \in DocumentIdArgs, r \in Rankings(Len(collection)), k \in TopKs :
          asked = <<>> /\ GetContext(ids, r, k)
    \/ \E ids \in DocumentIdArgs, r \in Rankings(Len(collection)),
          e \in BOOLEAN : asked = <<>> /\ AskQuestion(ids, r, e)

SpecAsk == AskInit /\ [][AskNext]_vars

----------------------------------------------------------------------------
(* Two POST /ingest requests of one file each, their steps interleaved.     *)

ConcurrentFiles ==
    {GoodPdf, BlankPdf, BrokenPdf, ReadablePdf(<<<<"a">>, <<"a", "a">>>>)}

ConcurrentUploads ==
    {[filename |-> "contract.pdf", save_ok |-> TRUE, file |-> f] :
        f \in ConcurrentFiles}

ConcurrentInit ==
    /\ uploads = <<>>
    /\ metadata = <<>>
    /\ collection = <<>>
    /\ cfg = DefaultConfig
    /\ runs = <<>>
    /\ lookup = <<>>
    /\ req \in {[r \in Requests |->
                    [IdleRequest EXCEPT !.pc = "save", !.batch = <<b[r]>>]] :
                b \in [Requests -> ConcurrentUploads]}
    /\ delivered = <<>>
    /\ AuditIdle

SpecConcurrent == ConcurrentInit /\ [][IngestNext]_vars

----------------------------------------------------------------------------
(* Properties of the document store, the chunker and the indexer.           *)

\* the chunks the recorded index_document calls produced, and the stored ones
RunChunks == UNION {{runs[k].chunks[j] : j \in 1..Len(runs[k].chunks)} :
                    k \in 1..Len(runs)}

StoredChunks == {collection[k] : k \in 1..Len(collection)}

PageTexts(meta) == [k \in 1..Len(meta.pages) |-> meta.pages[k].text]

\* C1: every chunk index_document produces or stores for an extracted document
\* carries the text found in the document's full text at the chunk's recorded
\* range: text = full_text[char_start:char_end].
C1_ChunkRoundTrip ==
    \A c \in RunChunks \cup StoredChunks :
        /\ c.metadata.document_id \in DOMAIN metadata
        /\ c.text = Slice(metadata[c.metadata.document_id].text,
                          c.metadata.char_start, c.metadata.char_end)

\* C1 witness: overlapping windows were stored for a page that is not the first
C1_Witness ==
    /\ cfg.chunk_overlap >= 1
    /\ cfg.chunk_size > cfg.chunk_overlap
    /\ \E c, e \in StoredChunks :
          /\ c.metadata.page = 2
          /\ e.metadata.page = 2
          /\ c.metadata.char_start < e.metadata.char_start
          /\ e.metadata.char_start < c.metadata.char_end
          /\ Len(c.text) >= 2

C3_ChunkWithinPage ==
    \A c \in RunChunks \cup StoredChunks :
        /\ c.metadata.char_end - c.metadata.char_start = Len(c.text)
        /\ c.metadata.document_id \in DOMAIN metadata
        /\ \E k \in 1..Len(metadata[c.metadata.document_id].pages) :
              LET page_info == metadata[c.metadata.document_id].pages[k]
              IN  /\ page_info.page = c.metadata.page
                  /\ page_info.char_start <= c.metadata.char_start
                  /\ c.metadata.char_start <= c.metadata.char_end
                  /\ c.metadata.char_end <= page_info.char_end

\* C3 witness: a window cut short by the end of the first of two pages
C3_Witness ==
    \E c \in StoredChunks :
        LET meta == metadata[c.metadata.document_id]
        IN  /\ Len(meta.pages) = 2
            /\ c.metadata.page = 1
            /\ Len(c.text) < cfg.chunk_size
            /\ c.metadata.char_end = meta.pages[1].char_end
            /\ c.metadata.char_start > 0

\* C4: the page returned for a position is at most the page returned for any
\* later position and at least the page returned for any earlier one.
C4_PageMonotonic ==
    \A k \in 1..Len(lookup) :
        lookup[k].result = "ok" =>
            \A q \in Positions(lookup[k].document_id) :
                LET other == get_page_for_char_position(
                                 metadata[lookup[k].document_id].page_offsets, q)
                IN  /\ q >= lookup[k].char_pos => lookup[k].page <= other
                    /\ q <= lookup[k].char_pos => other <= lookup[k].page

\* C4 witness: a position on the second page of a two-page document resolved
C4_Witness ==
    \E k \in 1..Len(lookup) :
        /\ lookup[k].result = "ok"
        /\ Len(metadata[lookup[k].document_id].page_offsets) = 2
        /\ lookup[k].page = 2
        /\ lookup[k].char_pos < metadata[lookup[k].document_id].total_chars

C6_ReindexIdempotent ==
    (/\ Len(runs) = 2
     /\ runs[1].result = "ok"
     /\ runs[2].document_id = runs[1].document_id)
    => /\ runs[2].result \in {"ok", "EmbeddingError"}
       /\ runs[2].after = runs[1].after
       /\ collection = runs[2].after
       /\ ~HasDuplicateIds(collection)
       /\ ChunkIds(collection) = ChunkIds(runs[2].chunks)
       /\ \A c \in StoredChunks :
             \E j \in 1..Len(runs[2].chunks) : runs[2].chunks[j] = c

\* C6 witness: a document of several chunks was indexed twice, both calls ending
\* normally
C6_Witness ==
    /\ Len(runs) = 2
    /\ runs[1].result = "ok"
    /\ runs[2].result = "ok"
    /\ runs[2].document_id = runs[1].document_id
    /\ Len(collection) >= 2

\* C7 as stated: two index_document calls on the same stored document produce
\* the same set of chunk ids, and within one call no two chunks get the same id.
C7_Original ==
    /\ (Len(runs) = 2 /\ runs[1].chunked /\ runs[2].chunked
            /\ runs[1].document_id = runs[2].document_id)
          => ChunkIds(runs[1].chunks) = ChunkIds(runs[2].chunks)
    /\ \A k \in 1..Len(runs) : ~HasDuplicateIds(runs[k].chunks)

\* C8 as stated: index_document called on a stored document with chunk_overlap
\* >= chunk_size ends with ConfigError and produces no chunk.
C8_Original ==
    \A k \in 1..Len(runs) :
        (runs[k].result # "FileNotFoundError"
            /\ cfg.chunk_overlap >= cfg.chunk_size)
          => /\ runs[k].result = "ConfigError"
             /\ ~runs[k].chunked

----------------------------------------------------------------------------
(* Properties of ingestion.                                                 *)

\* a file that ingests when it is uploaded alone
FileHealthy(u) ==
    IsPdfName(u.filename) /\ u.save_ok /\ extract_text(0, u.file).ok

\* a file whose save or whose text extraction fails
FileFails(u) ==
    IsPdfName(u.filename) /\ (~u.save_ok \/ ~extract_text(0, u.file).ok)

\* C9 as stated: once a batch of PDF files of which some fail to save or to
\* extract is answered, every file that ingests alone was saved, extracted and
\* scheduled for indexing, and its document id is in the response: the ids
\* returned are as many as the healthy files, each names a stored, extracted
\* upload with an index task, and they cover the healthy contents.
C9_Original ==
    \A r \in Requests :
        LET q == req[r]
            healthy == {j \in 1..Len(q.batch) : FileHealthy(q.batch[j])}
        IN  (/\ q.pc = "done"
             /\ \A j \in 1..Len(q.batch) : IsPdfName(q.batch[j].filename)
             /\ \E j \in 1..Len(q.batch) : FileFails(q.batch[j]))
            => LET ids == q.response[1].document_ids
               IN  /\ Len(ids) = Cardinality(healthy)
                   /\ \A k \in 1..Len(ids) :
                         /\ ids[k] \in DOMAIN uploads
                         /\ ids[k] \in DOMAIN metadata
                         /\ \E t \in 1..Len(q.tasks) :
                               q.tasks[t] = IndexTask(ids[k])
                   /\ \A f \in {q.batch[j].file : j \in healthy} :
                         Cardinality({k \in 1..Len(ids) : uploads[ids[k]] = f})
                           = Cardinality({j \in healthy : q.batch[j].file = f})

----------------------------------------------------------------------------
(* Properties of the audit rules.                                           *)

\* text holds a number below 30 followed, after optional blanks, by "day"
HasShortNoticeToken(text) ==
    \E i \in 1..Len(text) : \E j \in i..Len(text) :
        /\ \A k \in i..j : IsDigit(text[k])
        /\ i > 1 => ~IsDigit(text[i - 1])
        /\ j < Len(text) => ~IsDigit(text[j + 1])
        /\ IntOf(SubSeq(text, i, j)) < 30
        /\ LET k == SkipWhile(text, j + 1, RegexSpace)
           IN  Slice(Lower(text), k - 1, k + 2) = Word_day

AutoRenewalCount(findings) ==
    Cardinality({k \in 1..Len(findings) :
                    /\ findings[k].category = "auto_renewal"
                    /\ findings[k].severity = "high"})

\* C10 as stated: audit_contract returns the auto-renewal finding exactly when
\* auto_renewal is true and the text holds an "N day(s)" token with N < 30, and
\* returns exactly one for the scenario text.
C10_Original ==
    \A k \in 1..Len(audited) :
        audited[k].raised = "" =>
            /\ AutoRenewalCount(audited[k].findings) =
                  (IF fields.auto_renewal = "true" /\ HasShortNoticeToken(audit_text)
                   THEN 1 ELSE 0)
            /\ (audit_text = ScenarioText /\ fields.auto_renewal = "true")
                  => AutoRenewalCount(audited[k].findings) = 1

\* the findings of a category and severity
CountFindings(findings, category, severity) ==
    Cardinality({k \in 1..Len(findings) :
                    /\ findings[k].category = category
                    /\ findings[k].severity = severity})

\* C11 as stated: audit_contract returns the missing-liability-cap finding
\* (category "liability", severity "medium") exactly when liability_cap is
\* absent or its amount is zero or absent.
C11_Original ==
    \A k \in 1..Len(audited) :
        audited[k].raised = "" =>
            CountFindings(audited[k].findings, "liability", "medium") =
                (IF fields.liability_cap.kind = "null"
                     \/ fields.liability_cap.amount \in {"missing", "null", "0"}
                 THEN 1 ELSE 0)

\* the part of a returned result that precedes the findings the LLM gave
RulePart(result) ==
    SubSeq(result.findings, 1,
           Len(result.findings)
             - (IF llm.configured THEN Len(llm_audit(llm).findings) ELSE 0))

BothLiabilityWords(text) ==
    /\ \E k \in 0..Len(text) :
          Lower(Slice(text, k, k + Len(Word_unlimited))) = Word_unlimited
    /\ \E k \in 0..Len(text) :
          Lower(Slice(text, k, k + Len(Word_liability))) = Word_liability

\* C12 (as amended): whenever audit_contract returns, the findings its rule
\* checks contribute hold exactly one finding of category "liability" and
\* severity "high" if "unlimited" and "liability" both occur in the text in any
\* letter case, and none otherwise; without a configured LLM these are all the
\* findings.
C12_UnlimitedLiabilityRule ==
    \A k \in 1..Len(audited) :
        audited[k].raised = "" =>
            /\ CountFindings(RulePart(audited[k]), "liability", "high") =
                   (IF BothLiabilityWords(audit_text) THEN 1 ELSE 0)
            /\ ~llm.configured => RulePart(audited[k]) = audited[k].findings

\* C12 as stated: audit_contract returns exactly one finding of category
\* "liability" and severity "high" for a text holding both words.
C12_Original ==
    \A k \in 1..Len(audited) :
        (audited[k].raised = "" /\ BothLiabilityWords(audit_text)) =>
            CountFindings(audited[k].findings, "liability", "high") = 1

\* C12 witness: a text holding "UNLIMITED" and, after it, "liability" was
\* audited and the finding returned
C12_Witness ==
    \E k \in 1..Len(audited) :
        /\ audit_text = Frag_unlimited \o Frag_liability
        /\ audited[k].raised = ""
        /\ CountFindings(audited[k].findings, "liability", "high") = 1

----------------------------------------------------------------------------
(* Properties of field extraction.                                          *)

\* word occurs in text, in any letter case
HasWord(text, word) ==
    \E k \in 0..Len(text) : Lower(Slice(text, k, k + Len(word))) = word

\* C13: extract_fields never raises, and when the LLM client is unconfigured,
\* its call raises or its output does not parse, the result is the keyword
\* fallback: auto_renewal true exactly when "auto" and "renew" both occur in
\* the lowercased text, every other field null or an empty list.
C13_ExtractFallback ==
    \A k \in 1..Len(extraction) :
        /\ extraction[k].raised = ""
        /\ (~llm.configured \/ llm.reply \in {"raises", "unparseable"}) =>
              LET f == extraction[k].fields
              IN  /\ DOMAIN f = {"parties", "effective_date", "term",
                                 "governing_law", "payment_terms", "termination",
                                 "auto_renewal", "confidentiality", "indemnity",
                                 "liability_cap", "signatories"}
                  /\ f.auto_renewal =
                        (IF HasWord(audit_text, Word_auto)
                              /\ HasWord(audit_text, Word_renew)
                         THEN "true" ELSE "null")
                  /\ f.parties = <<>>
                  /\ f.signatories = <<>>
                  /\ \A n \in DOMAIN f \ {"parties", "signatories", "auto_renewal"} :
                        f[n] = "null"

\* C13 witness: a configured client whose output does not parse, on a text that
\* spells "Auto-renew" with a capital: the fallback set auto_renewal
C13_Witness ==
    \E k \in 1..Len(extraction) :
        /\ llm.configured
        /\ llm.reply = "unparseable"
        /\ audit_text = Frag_autorenew
        /\ extraction[k].fields.auto_renewal = "true"

----------------------------------------------------------------------------
(* Properties of the audit result.                                          *)

\* C14: a returned audit result is the findings of the four rules in the
\* order auto-renewal, unlimited liability, liability cap, broad indemnity,
\* followed by the findings the LLM gave, none removed; with no configured
\* LLM or a failing LLM call the call returns and the result is the rule
\* findings alone.
C14_RulesThenLlm ==
    \A k \in 1..Len(audited) :
        LET rules == AutoRenewalFindings(audit_text, fields)
                       \o UnlimitedLiabilityFindings(audit_text)
                       \o LiabilityCapFindings(fields)
                       \o BroadIndemnityFindings(fields)
        IN  /\ audited[k].raised = "" =>
                  audited[k].findings =
                      rules \o (IF llm.configured /\ llm.reply = "list"
                                THEN llm.findings ELSE <<>>)
            /\ (~llm.configured \/ llm.reply = "raises") =>
                  /\ audited[k].raised = ""
                  /\ audited[k].findings = rules

\* C14 witness: two rules fired, in rule order, and the finding of the LLM
\* follows them
C14_Witness ==
    \E k \in 1..Len(audited) :
        /\ llm.configured
        /\ llm.findings # <<>>
        /\ audited[k].raised = ""
        /\ Len(audited[k].findings) = 3
        /\ audited[k].findings[1].description =
              <<"Unlimited liability clause detected">>
        /\ audited[k].findings[2].description = <<"No liability cap specified">>
        /\ audited[k].findings[3] = llm.findings[1]

----------------------------------------------------------------------------
(* Properties of retrieval and of POST /ask.                                *)

\* C15: when the search returns no match, get_context_for_question returns
\* the empty context and no citation, and POST /ask answers 200 with the "no
\* relevant information" message and no citation, without calling the LLM.
C15_EmptyRetrieval ==
    \A k \in 1..Len(asked) :
        (asked[k].searched /\ asked[k].results = <<>>) =>
            /\ asked[k].context = <<>>
            /\ asked[k].citations = <<>>
            /\ asked[k].call = "ask" =>
                  /\ asked[k].response[1].status_code = 200
                  /\ asked[k].response[1].answer = NoInformation
                  /\ asked[k].response[1].citations = <<>>
                  /\ asked[k].response[1].llm_calls = 0

\* C15 witness: with a configured LLM, a question restricted to a document
\* that has no chunk in a filled index was answered
C15_Witness ==
    \E k \in 1..Len(asked) :
        /\ asked[k].call = "ask"
        /\ llm.configured
        /\ collection # <<>>
        /\ asked[k].document_ids.given
        /\ asked[k].document_ids.ids # <<>>
        /\ asked[k].searched
        /\ asked[k].results = <<>>
        /\ asked[k].response[1].answer = NoInformation

\* C16 as stated: whenever document_ids is given, the empty list included,
\* every match returned belongs to a document of that list.
C16_Original ==
    \A k \in 1..Len(asked) :
        (asked[k].searched /\ asked[k].document_ids.given) =>
            \A j \in 1..Len(asked[k].results) :
                \E i \in 1..Len(asked[k].document_ids.ids) :
                    asked[k].results[j].metadata.document_id
                        = asked[k].document_ids.ids[i]

\* where the text of match k starts in the context
ContextOffset(results, k) ==
    SumLen([j \in 1..(k - 1) |-> results[j].text]) + 2 * (k - 1)

\* C17: the context is the texts of the matches in the order the retriever
\* returned them (nearest first), any two neighbours separated by a blank
\* line, and nothing else; there is one citation per match, in the same
\* order, bearing the match's document id, page and character range and, as
\* its preview, the first min(200, len) characters of the match's text.
C17_ContextAndCitations ==
    \A k \in 1..Len(asked) :
        asked[k].searched =>
            LET results == asked[k].results
                n == Len(results)
            IN  /\ \A j \in 1..(n - 1) :
                      results[j].distance < results[j + 1].distance
                /\ Len(asked[k].context) =
                      (IF n = 0 THEN 0
                       ELSE ContextOffset(results, n) + Len(results[n].text))
                /\ \A j \in 1..n :
                      /\ Slice(asked[k].context, ContextOffset(results, j),
                               ContextOffset(results, j) + Len(results[j].text))
                            = results[j].text
                      /\ j < n =>
                            Slice(asked[k].context,
                                  ContextOffset(results, j + 1) - 2,
                                  ContextOffset(results, j + 1)) = <<NL, NL>>
                /\ Len(asked[k].citations) = n
                /\ \A j \in 1..n :
                      LET c == asked[k].citations[j]
                          m == results[j]
                      IN  /\ c.document_id = m.metadata.document_id
                          /\ c.page = m.metadata.page
                          /\ c.char_range.start = m.metadata.char_start
                          /\ c.char_range.end = m.metadata.char_end
                          /\ c.text = SubSeq(m.text, 1,
                                             Min(PreviewLength, Len(m.text)))

\* C17 witness: three matches of two documents, the second longer than a
\* preview and cited by its first 200 characters
C17_Witness ==
    \E k \in 1..Len(asked) :
        /\ asked[k].searched
        /\ Len(asked[k].results) = 3
        /\ Len(asked[k].results[2].text) > PreviewLength
        /\ Len(asked[k].citations[2].text) = PreviewLength
        /\ Len(asked[k].context) > PreviewLength

----------------------------------------------------------------------------
(* Properties of failing index runs and of background work.                 *)

\* C18: an index_document call that fails (the embedding call raises, or the
\* collection refuses the batch) writes nothing, and after every call the
\* collection holds either every chunk the call produced or none of them; the
\* collection changes through these calls only.
C18_AllOrNothing ==
    /\ runs # <<>> => collection = runs[Len(runs)].after
    /\ \A k \in 1..Len(runs) :
          LET stored == {runs[k].after[j] : j \in 1..Len(runs[k].after)}
              made == {runs[k].chunks[j] : j \in 1..Len(runs[k].chunks)}
          IN  /\ runs[k].result # "ok" => runs[k].after = runs[k].before
              /\ runs[k].result = "ok" => made \subseteq stored
              /\ \/ made \subseteq stored
                 \/ ChunkIds(runs[k].chunks) \cap ChunkIds(runs[k].after) = {}

\* C18 witness: on one document of several chunks the embedding call failed
\* in one run and the collection refused the batch in the next; the index
\* holds nothing
C18_Witness ==
    /\ Len(runs) = 2
    /\ runs[1].document_id = runs[2].document_id
    /\ runs[1].result = "EmbeddingError"
    /\ runs[2].result = "DuplicateIDError"
    /\ Len(runs[2].chunks) >= 2
    /\ collection = <<>>

\* C19: the response of an ingestion is given once every file was extracted
\* and before any of its background tasks ran: the step that responds starts
\* no indexing and sends no event, indexing and event delivery happen only
\* for requests already answered, and no step changes a response once given,
\* whatever the background tasks do.
C19_FireAndForget ==
    [][\A r \in Requests :
          /\ req[r].response # <<>> => req'[r].response = req[r].response
          /\ (req[r].response = <<>> /\ req'[r].response # <<>>) =>
                /\ <<collection, runs, delivered>>' = <<collection, runs, delivered>>
                /\ req'[r].pending = <<>> \/ req'[r].pending = req[r].tasks
                /\ \A k \in 1..Len(req'[r].response[1].document_ids) :
                      req'[r].response[1].document_ids[k] \in DOMAIN metadata
          /\ req'[r].pending # req[r].pending =>
                req'[r].response # <<>>
          /\ <<collection, runs, delivered>>' # <<collection, runs, delivered>> =>
                \E a \in Requests : req[a].response # <<>>]_vars

\* C19 witness: an ingestion answered 200 with a document id whose index task
\* failed afterwards; the tasks are over and the response stands
C19_Witness ==
    \E r \in Requests :
        /\ req[r].response # <<>>
        /\ req[r].response[1].status_code = 200
        /\ req[r].pending = <<>>
        /\ runs # <<>>
        /\ runs[Len(runs)].result # "ok"
        /\ \E k \in 1..Len(req[r].response[1].document_ids) :
              req[r].response[1].document_ids[k] = runs[Len(runs)].document_id

----------------------------------------------------------------------------
(* Properties of concurrent ingestion.                                      *)

\* the ids save_pdf gave to the files of a request
SavedIds(r) == {req[r].saved[j] : j \in 1..Len(req[r].saved)}

\* C20: at every point of every interleaving of two ingestions, no document
\* id was given to both; every stored file, every stored metadata record and
\* every indexed chunk belongs to one saved file and is what saving,
\* extracting and indexing that file under its id produce; the chunks of a
\* document are in the index all or not at all.
C20_NoInterference ==
    /\ \A r1, r2 \in Requests : r1 # r2 => SavedIds(r1) \cap SavedIds(r2) = {}
    /\ DOMAIN uploads = UNION {SavedIds(r) : r \in Requests}
    /\ DOMAIN metadata \subseteq DOMAIN uploads
    /\ \A c \in StoredChunks :
          c.id[1] = c.metadata.document_id /\ c.id[1] \in DOMAIN metadata
    /\ \A r \in Requests : \A j \in 1..Len(req[r].saved) :
          LET d == req[r].saved[j]
              file == req[r].batch[j].file
              alone == extract_text(d, file)
              mine == {c \in StoredChunks : c.metadata.document_id = d}
              chunks == DocChunks(d, alone.meta.pages, 1, DefaultChunkSize,
                                  DefaultChunkSize - DefaultChunkOverlap)
          IN  /\ uploads[d] = file
              /\ d \in DOMAIN metadata =>
                    alone.ok /\ metadata[d] = alone.meta
              /\ \/ mine = {}
                 \/ d \in DOMAIN metadata
                      /\ mine = {chunks[k] : k \in 1..Len(chunks)}

\* C20 witness: the request that saved first had its document indexed last;
\* both documents are indexed, one of them in more than one chunk
C20_Witness ==
    /\ \A r \in Requests : req[r].pc = "done" /\ req[r].pending = <<>>
    /\ Len(runs) = 2
    /\ runs[1].result = "ok"
    /\ runs[2].result = "ok"
    /\ runs[1].document_id > runs[2].document_id
    /\ Len(collection) >= 3

----------------------------------------------------------------------------
(* Properties of the fallback parser.                                       *)

\* C21 as stated: when the primary parser fails, before the first page or
\* after some pages, and the secondary parser succeeds, the stored document is
\* the one the secondary parser alone produces: the page numbers are 1..N,
\* each once, the first page starts at offset 0, page_offsets has N entries
\* and full_text holds each page's text once.
C21_Original ==
    \A d \in DOMAIN metadata :
        (~uploads[d].primary_ok /\ uploads[d].secondary_ok) =>
            LET n == Len(uploads[d].pages)
                meta == metadata[d]
            IN  /\ Len(meta.pages) = n
                /\ \A k \in 1..n : meta.pages[k].page = k
                /\ n >= 1 => meta.pages[1].char_start = 0
                /\ Len(meta.page_offsets) = n
                /\ Len(meta.text) = SumLen(uploads[d].pages) + n
                /\ meta = MakeMetadata(d, ParsePages(EmptyExtraction,
                                                     uploads[d].pages, 1, n))

====
